---- MODULE Spec2Model ----
(***************************************************************************)
(* Aura: the per-provider RateLimiter of the AI service                    *)
(* (ai-service/services/rate_limiter.py) and the processing-job lifecycle  *)
(* of the backend (backend/app/api/processing.py,                          *)
(* backend/app/tasks/processing_tasks.py).                                 *)
(*                                                                         *)
(* The rate limiter runs on one asyncio event loop: the code between two   *)
(* awaits is one atomic step.  The clock is in seconds.                    *)
(***************************************************************************)
EXTENDS Integers, Sequences, FiniteSets, TLC

\* ------------------------------------------------------------------------
\* Bounds of the model
\* ------------------------------------------------------------------------
\* RateLimiter(rpm_limit, rpd_limit): the limits are constructor arguments;
\* the model runs one provider with small limits.
rpm_limit == 2

rpd_limit == 3

\* Number of coroutines that call the limiter.
NumCallers == 2

\* Seconds by which one Tick advances the clock.
TickLen == 30

\* Seconds of clock explored after StartTime (a sleeping caller may extend it).
Horizon == 150

\* Seconds before midnight at which the clock starts.
StartBefore == 90

\* Total number of acquire() calls explored.
MaxCalls == 6

\* Number of ProcessingJob rows that can be created.
MaxJobs == 2

\* Number of uploaded Media rows.
NumMedia == 2

\* Number of users.
NumUsers == 2

\* Number of Celery worker processes.
NumWorkers == 2

\* Number of HTTP requests the backend serves at the same time.
NumReqs == 2

\* Requests recorded by one RateLimiter object of the registry.
MaxUse == 2

\* The clock of the backend counts ticks, TicksPerSecond to the second, up to
\* AuthHorizon; the lifetimes of access and refresh tokens are scaled to it.
TicksPerSecond == 2

AuthHorizon == 9

access_token_expire == 3

refresh_token_expire == 5

\* ------------------------------------------------------------------------
\* Program constants
\* ------------------------------------------------------------------------
\* Length of the minute window in seconds (now - 60, 60 - (now - oldest)).
MinuteWindow == 60

\* Seconds per calendar day: datetime.now().date() changes every DayLen.
DayLen == 86400

StartTime == DayLen - StartBefore

MaxTime == StartTime + Horizon

Callers == 1..NumCallers

NoCaller == 0

\* datetime.now().date() for the clock value t
Date(t) == t \div DayLen

Days == Date(StartTime)..Date(MaxTime + MinuteWindow + TickLen)

VARIABLES
    now,              \* time.time(), the wall clock
    minute_requests,  \* deque of timestamps
    day_requests,     \* deque of dates
    lock_owner,       \* holder of self._lock, NoCaller when free
    lock_waiters,     \* FIFO of callers blocked in `async with self._lock`
    pc,               \* per caller: "idle", "acquire_lockwait",
                      \* "check_lockwait", "sleeping"
    current_date,     \* per caller: the local current_date of acquire()
    wake_at,          \* per caller: the time asyncio.sleep(wait_time) is due
    oldest_seen,      \* per caller: minute_requests[0] read by the wait branch
    day_calls,        \* per day: acquire() bodies run on that date
    admitted_for,     \* per day: requests recorded by calls made on that date
    admitted_on,      \* per day: requests recorded while the clock was on it
    last_call,        \* time of the latest acquire() call, -1 before the first
    spaced,           \* all acquire() calls so far were >= 60/rpm_limit apart
    ever_slept,       \* some acquire() has entered asyncio.sleep
    total_calls,      \* acquire() calls made so far
    jobs,             \* table processing_jobs: job id -> row
    media_processed,  \* table media: media id -> is_processed
    file_type,        \* table media: media id -> file_type, NULL before the
                      \* upload
    media,            \* per media id: "absent" (not uploaded), "committed"
                      \* (row committed, upload_media_file about to create
                      \* its job), "present"
    contents,         \* table processed_content: processing_job_id of each row
    task,             \* per job: where its process_media task is: "none",
                      \* "unsent", "upload_unsent" (before .delay in
                      \* start_processing, in upload_media_file), "queued"
                      \* (in the broker), "loaded", "started" (in a worker),
                      \* "done"
    cancels,          \* per job: cancel_job requests between their status
                      \* check and their commit
    enqueued,         \* per job: process_media_task.delay calls made for it
    calls,            \* per job: posts of its worker to the AI service
    rate_limiters,    \* _rate_limiters: provider name -> index of its
                      \* RateLimiter in `limiters`, 0 when the key is absent
    limiters,         \* the RateLimiter objects constructed so far
    got,              \* outcome of the latest get_rate_limiter call
    clock,            \* datetime.utcnow() of the backend, in ticks
    token,            \* the token in the client's hands
    decoded,          \* outcome of the latest decode_token call
    last              \* the step just taken

rl_vars == <<now, minute_requests, day_requests, lock_owner, lock_waiters, pc,
             current_date, wake_at, oldest_seen, day_calls, admitted_for,
             admitted_on, last_call, spaced, ever_slept, total_calls>>

job_vars == <<jobs, media_processed, file_type, media, contents, task,
              cancels, enqueued, calls>>

reg_vars == <<rate_limiters, limiters, got>>

auth_vars == <<clock, token, decoded>>

svc_vars == <<reg_vars, auth_vars>>

vars == <<rl_vars, job_vars, svc_vars, last>>

\* ------------------------------------------------------------------------
\* RateLimiter._cleanup_old_requests
\* ------------------------------------------------------------------------
RECURSIVE CleanMinute(_, _)
\* while self.minute_requests and self.minute_requests[0] < now - 60: popleft()
CleanMinute(mr, t) ==
    IF mr # <<>> /\ Head(mr) < t - MinuteWindow
    THEN CleanMinute(Tail(mr), t)
    ELSE mr

\* Mutant of CleanDay: the day window is never purged
CleanDayNever(dr, d) == dr

RECURSIVE CleanDay(_, _)
\* while self.day_requests and self.day_requests[0] < current_date: popleft()
CleanDay(dr, d) ==
    IF dr # <<>> /\ Head(dr) < d
    THEN CleanDay(Tail(dr), d)
    ELSE dr

\* Mutant of WaitTime: the subtraction the wrong way round
WaitTimeReversed(t, oldest) == MinuteWindow - (oldest - t)

\* wait_time = 60 - (now - oldest_request)
WaitTime(t, oldest) == MinuteWindow - (t - oldest)

\* Mutant of ShouldSleep: a wait of zero seconds also suspends
ShouldSleepOnZero(w) == w >= 0

\* if wait_time > 0: the caller sleeps
ShouldSleep(w) == w > 0

\* Mutant of DayFull: off by one, > for >=
DayFullStrict(dr) == Len(dr) > rpd_limit

\* if len(self.day_requests) >= self.rpd_limit
DayFull(dr) == Len(dr) >= rpd_limit

\* if len(self.minute_requests) >= self.rpm_limit
MinuteFull(mr) == Len(mr) >= rpm_limit

\* Mutant of Record: the request is entered twice
RecordTwice(w, x) == Append(Append(w, x), x)

\* self.minute_requests.append(now); self.day_requests.append(current_date)
Record(w, x) == Append(w, x)

\* Mutant of LockFree: acquire() without the lock
LockIgnored == TRUE

\* asyncio.Lock: acquire() succeeds at once when the lock is free and nobody
\* is queued for it
LockFree == lock_owner = NoCaller /\ lock_waiters = <<>>

\* The step just taken: operation, caller, result, and for an acquire() body
\* its ordinal among the acquire() bodies run on the same date
Step(o, c, r, n) == [op |-> o, who |-> c, res |-> r, no |-> n]

RLInit ==
    /\ now = StartTime
    /\ minute_requests = <<>>
    /\ day_requests = <<>>
    /\ lock_owner = NoCaller
    /\ lock_waiters = <<>>
    /\ pc = [c \in Callers |-> "idle"]
    /\ current_date = [c \in Callers |-> 0]
    /\ wake_at = [c \in Callers |-> 0]
    /\ oldest_seen = [c \in Callers |-> 0]
    /\ day_calls = [d \in Days |-> 0]
    /\ admitted_for = [d \in Days |-> 0]
    /\ admitted_on = [d \in Days |-> 0]
    /\ last_call = -1
    /\ spaced = TRUE
    /\ ever_slept = FALSE
    /\ total_calls = 0

\* ------------------------------------------------------------------------
\* RateLimiter.acquire, from the lock being taken to the first suspension
\* or to the return
\* ------------------------------------------------------------------------
AcquireBody(c) ==
    LET t  == now
        d  == Date(now)
        mr == CleanMinute(minute_requests, t)
        dr == CleanDay(day_requests, d)
        n  == day_calls[d] + 1
    IN  /\ day_calls' = [day_calls EXCEPT ![d] = n]
        /\ IF DayFull(dr)
           THEN \* raise RateLimitExceeded; the lock is released
                /\ minute_requests' = mr
                /\ day_requests' = dr
                /\ lock_owner' = NoCaller
                /\ pc' = [pc EXCEPT ![c] = "idle"]
                /\ last' = Step("acquire", c, "raised", n)
                /\ UNCHANGED <<current_date, wake_at, oldest_seen,
                               admitted_for, admitted_on, ever_slept>>
           ELSE IF MinuteFull(mr) /\ ShouldSleep(WaitTime(t, Head(mr)))
           THEN \* await asyncio.sleep(wait_time), inside the lock
                /\ minute_requests' = mr
                /\ day_requests' = dr
                /\ lock_owner' = c
                /\ pc' = [pc EXCEPT ![c] = "sleeping"]
                /\ current_date' = [current_date EXCEPT ![c] = d]
                /\ wake_at' = [wake_at EXCEPT ![c] = t + WaitTime(t, Head(mr))]
                /\ oldest_seen' = [oldest_seen EXCEPT ![c] = Head(mr)]
                /\ ever_slept' = TRUE
                /\ last' = Step("acquire", c, "sleep", n)
                /\ UNCHANGED <<admitted_for, admitted_on>>
           ELSE \* record this request
                /\ minute_requests' = Record(mr, t)
                /\ day_requests' = Record(dr, d)
                /\ lock_owner' = NoCaller
                /\ pc' = [pc EXCEPT ![c] = "idle"]
                /\ admitted_for' = [admitted_for EXCEPT ![d] = @ + 1]
                /\ admitted_on' = [admitted_on EXCEPT ![d] = @ + 1]
                /\ last' = Step("acquire", c, "ok", n)
                /\ UNCHANGED <<current_date, wake_at, oldest_seen, ever_slept>>

\* RateLimiter.check_availability, inside the lock
CheckBody(c) ==
    LET mr == CleanMinute(minute_requests, now)
        dr == CleanDay(day_requests, Date(now))
        r  == IF DayFull(dr) THEN "false"
              ELSE IF MinuteFull(mr) THEN "false"
              ELSE "true"
    IN  /\ minute_requests' = mr
        /\ day_requests' = dr
        /\ lock_owner' = NoCaller
        /\ pc' = [pc EXCEPT ![c] = "idle"]
        /\ last' = Step("check", c, r, 0)
        /\ UNCHANGED <<current_date, wake_at, oldest_seen, day_calls,
                       admitted_for, admitted_on, ever_slept>>

\* A coroutine calls `await rate_limiter.acquire()`
AcquireCall(c) ==
    /\ pc[c] = "idle"
    /\ total_calls < MaxCalls
    /\ total_calls' = total_calls + 1
    /\ last_call' = now
    /\ spaced' = (spaced /\ (last_call = -1
                             \/ (now - last_call) * rpm_limit >= MinuteWindow))
    /\ UNCHANGED now
    /\ IF LockFree
       THEN AcquireBody(c) /\ UNCHANGED lock_waiters
       ELSE /\ lock_waiters' = Append(lock_waiters, c)
            /\ pc' = [pc EXCEPT ![c] = "acquire_lockwait"]
            /\ last' = Step("acquire", c, "lockwait", 0)
            /\ UNCHANGED <<minute_requests, day_requests, lock_owner,
                           current_date, wake_at, oldest_seen, day_calls,
                           admitted_for, admitted_on, ever_slept>>

\* A coroutine calls `await rate_limiter.check_availability()`
CheckCall(c) ==
    /\ pc[c] = "idle"
    /\ UNCHANGED <<now, last_call, spaced, total_calls>>
    /\ IF LockFree
       THEN CheckBody(c) /\ UNCHANGED lock_waiters
       ELSE /\ lock_waiters' = Append(lock_waiters, c)
            /\ pc' = [pc EXCEPT ![c] = "check_lockwait"]
            /\ last' = Step("check", c, "lockwait", 0)
            /\ UNCHANGED <<minute_requests, day_requests, lock_owner,
                           current_date, wake_at, oldest_seen, day_calls,
                           admitted_for, admitted_on, ever_slept>>

\* The lock was released and the first queued caller gets it
LockGranted(c) ==
    /\ pc[c] \in {"acquire_lockwait", "check_lockwait"}
    /\ lock_owner = NoCaller
    /\ lock_waiters # <<>>
    /\ Head(lock_waiters) = c
    /\ lock_waiters' = Tail(lock_waiters)
    /\ UNCHANGED <<now, last_call, spaced, total_calls>>
    /\ IF pc[c] = "acquire_lockwait" THEN AcquireBody(c) ELSE CheckBody(c)

\* asyncio.sleep(wait_time) returns: now = time.time(); cleanup with the
\* current_date read before the sleep; record; leave the lock
Wake(c) ==
    /\ pc[c] = "sleeping"
    /\ now >= wake_at[c]
    /\ LET t  == now
           d  == current_date[c]
           mr == CleanMinute(minute_requests, t)
           dr == CleanDay(day_requests, d)
       IN  /\ minute_requests' = Record(mr, t)
           /\ day_requests' = Record(dr, d)
           /\ admitted_for' = [admitted_for EXCEPT ![d] = @ + 1]
           /\ admitted_on' = [admitted_on EXCEPT ![Date(t)] = @ + 1]
    /\ lock_owner' = NoCaller
    /\ pc' = [pc EXCEPT ![c] = "idle"]
    /\ current_date' = [current_date EXCEPT ![c] = 0]
    /\ wake_at' = [wake_at EXCEPT ![c] = 0]
    /\ oldest_seen' = [oldest_seen EXCEPT ![c] = 0]
    /\ last' = Step("wake", c, "ok", 0)
    /\ UNCHANGED <<now, lock_waiters, day_calls, last_call, spaced,
                   ever_slept, total_calls>>

\* The larger of two numbers
Max(a, b) == IF a >= b THEN a ELSE b

\* The dictionary get_usage_stats returns, built from the purged windows
UsageStats(mr, dr) ==
    [rpm_used |-> Len(mr),
     rpm_limit |-> rpm_limit,
     rpm_remaining |-> Max(0, rpm_limit - Len(mr)),
     rpd_used |-> Len(dr),
     rpd_limit |-> rpd_limit,
     rpd_remaining |-> Max(0, rpd_limit - Len(dr))]

\* Mutant of GetUsageStats: the status call is recorded as a request
GetUsageStatsCounted ==
    /\ minute_requests' = Append(CleanMinute(minute_requests, now), now)
    /\ day_requests' = Append(CleanDay(day_requests, Date(now)), Date(now))
    /\ last' = Step("stats", NoCaller, "ok", 0)
    /\ UNCHANGED <<now, lock_owner, lock_waiters, pc, current_date, wake_at,
                   oldest_seen, day_calls, admitted_for, admitted_on, last_call, spaced,
                   ever_slept, total_calls>>

\* RateLimiter.get_usage_stats: synchronous, does not take the lock
GetUsageStats ==
    /\ minute_requests' = CleanMinute(minute_requests, now)
    /\ day_requests' = CleanDay(day_requests, Date(now))
    /\ last' = Step("stats", NoCaller, "ok", 0)
    /\ UNCHANGED <<now, lock_owner, lock_waiters, pc, current_date, wake_at,
                   oldest_seen, day_calls, admitted_for, admitted_on, last_call, spaced,
                   ever_slept, total_calls>>

Sleepers == {c \in Callers : pc[c] = "sleeping" /\ wake_at[c] > now}

\* The clock advances by TickLen
Tick ==
    /\ now < MaxTime \/ Sleepers # {}
    /\ now' = now + TickLen
    /\ last' = Step("tick", NoCaller, "ok", 0)
    /\ UNCHANGED <<minute_requests, day_requests, lock_owner, lock_waiters,
                   pc, current_date, wake_at, oldest_seen, day_calls,
                   admitted_for, admitted_on, last_call, spaced, ever_slept,
                   total_calls>>

\* The clock reaches the moment a sleeping caller is due
TickToWake(c) ==
    /\ c \in Sleepers
    /\ now' = wake_at[c]
    /\ last' = Step("tick", c, "due", 0)
    /\ UNCHANGED <<minute_requests, day_requests, lock_owner, lock_waiters,
                   pc, current_date, wake_at, oldest_seen, day_calls,
                   admitted_for, admitted_on, last_call, spaced, ever_slept,
                   total_calls>>

RLNext ==
    \/ \E c \in Callers : AcquireCall(c)
    \/ \E c \in Callers : CheckCall(c)
    \/ \E c \in Callers : LockGranted(c)
    \/ \E c \in Callers : Wake(c)
    \/ \E c \in Callers : TickToWake(c)
    \/ GetUsageStats
    \/ Tick

\* ------------------------------------------------------------------------
\* Processing jobs: models.ProcessingJob, api/processing.py,
\* tasks/processing_tasks.py.  One step per database round trip.
\* ------------------------------------------------------------------------
JobIds == 1..MaxJobs

MediaIds == 1..NumMedia

Users == 1..NumUsers

NULL == "NULL"

CancelledByUser == "Cancelled by user"

MediaNotFound == "Media not found"

HTTPStatusError == "HTTPStatusError"

ProcessingFailed == "Document processing failed"

\* LLMService.generate: it returns text ("ok"), or acquire() raises
\* RateLimitExceeded, or the provider's client raises
GenOutcomes == {"ok", "RateLimitExceeded", "ProviderError"}

\* One execution of process_media_task after its first commit: whether the
\* media row is found, whether the post to the AI service returns 2xx,
\* whether the processor extracts the text, and how the LLM call ends.  A
\* step that is not reached is "ok".
Runs ==
    {r \in [media : {"found", "missing"}, http : {"ok", "error"},
            extract : {"ok", "error"}, gen : GenOutcomes] :
        /\ r.media = "missing" => r.http = "ok"
        /\ r.http = "error" => r.extract = "ok"
        /\ (r.media = "missing" \/ r.http = "error" \/ r.extract = "error")
              => r.gen = "ok"}

\* LLMService.analyze_content: the parsed answer of the model, or, when
\* generate() raises, the fallback dictionary built by the except branch
analyze_content(gen) ==
    IF gen = "ok"
    THEN [summary |-> "summary", confidence |-> "model", error |-> NULL]
    ELSE [summary |-> "content[:500]", confidence |-> "0.0", error |-> gen]

\* DocumentProcessor.process (AudioProcessor and ImageProcessor alike): the
\* ProcessingResult returned to the endpoint
process(extract, gen) ==
    IF extract # "ok"
    THEN [success |-> FALSE, summary |-> NULL, error |-> ProcessingFailed]
    ELSE LET analysis == analyze_content(gen)
         IN  [success |-> TRUE, summary |-> analysis.summary, error |-> NULL]

\* process_media_task from the media query to the check of the result:
\* "success", or the message of the exception raised
WorkerOutcome(run) ==
    IF run.media = "missing" THEN MediaNotFound
    ELSE IF run.http = "error" THEN HTTPStatusError
    ELSE LET result == process(run.extract, run.gen)
         IN  IF ~result.success THEN result.error ELSE "success"

\* What process_media_task can end with
CallOutcomes == {WorkerOutcome(run) : run \in Runs}

\* The worker posts to the AI service unless it failed before
Posts(run) == IF run.media = "missing" THEN 0 ELSE 1

\* The user whose note a media row belongs to
MediaOwner(m) == ((m - 1) % NumUsers) + 1

NoJob ==
    [status |-> "none", progress |-> 0, error_message |-> NULL,
     started_at |-> NULL, completed_at |-> NULL, media_id |-> 0, user_id |-> 0]

\* Mutant of NewJob: the job is created as processing
NewJobProcessing(u, m) ==
    [status |-> "processing", progress |-> 0, error_message |-> NULL,
     started_at |-> NULL, completed_at |-> NULL, media_id |-> m, user_id |-> u]

\* ProcessingJob(user_id, media_id, note_id, job_type, status=PENDING) with
\* the column defaults of models.ProcessingJob
NewJob(u, m) ==
    [status |-> "pending", progress |-> 0, error_message |-> NULL,
     started_at |-> NULL, completed_at |-> NULL, media_id |-> m, user_id |-> u]

Created == {j \in JobIds : jobs[j].status # "none"}

\* f[1] + ... + f[n]
RECURSIVE Sum(_, _)
Sum(f, n) == IF n = 0 THEN 0 ELSE f[n] + Sum(f, n - 1)

Uploaded == {m \in MediaIds : media[m] # "absent"}

\* Requests being served: start_processing and upload_media_file between
\* their commits and .delay, cancel_job between its status check and its
\* commit
BusyReqs ==
    Cardinality({j \in JobIds : task[j] \in {"unsent", "upload_unsent"}})
        + Cardinality({m \in MediaIds : media[m] = "committed"})
        + Sum(cancels, MaxJobs)

\* Workers executing process_media_task
BusyWorkers == Cardinality({j \in JobIds : task[j] \in {"loaded", "started"}})

JobInit ==
    /\ jobs = [j \in JobIds |-> NoJob]
    /\ media_processed = [m \in MediaIds |-> FALSE]
    /\ file_type = [m \in MediaIds |-> NULL]
    /\ media = [m \in MediaIds |-> "absent"]
    /\ contents = {}
    /\ task = [j \in JobIds |-> "none"]
    /\ cancels = [j \in JobIds |-> 0]
    /\ enqueued = [j \in JobIds |-> 0]
    /\ calls = [j \in JobIds |-> 0]

\* Mutant of Cancellable: a processing job can be cancelled too
CancellableWhileProcessing(st) == st \in {"pending", "processing"}

\* cancel_job accepts the job only in this status
Cancellable(st) == st = "pending"

\* Mutant of JobQuery: the query does not filter on the caller
JobQueryAnyUser(u, j) == IF jobs[j].status # "none" THEN j ELSE 0

\* db.query(ProcessingJob).filter(ProcessingJob.id == job_id,
\* ProcessingJob.user_id == current_user.id).first(): the job, 0 for None
JobQuery(u, j) ==
    IF jobs[j].status # "none" /\ jobs[j].user_id = u THEN j ELSE 0

\* get_job_status: the answer to user u asking for job j
GetStatusResponse(u, j) ==
    IF JobQuery(u, j) = 0
    THEN [code |-> 404, job |-> NoJob]
    ELSE [code |-> 200, job |-> jobs[j]]

\* Mutant of NextJobId: the id of the latest job is used again
LatestJobId == IF Created = {} THEN 1 ELSE Cardinality(Created)

\* id = Column(UUID, primary_key=True, default=uuid.uuid4): a fresh id,
\* here the next unused one
NextJobId == Cardinality(Created) + 1

\* Mutant of Delay: the task is sent twice
DelayTwice(n) == n + 2

\* process_media_task.delay(str(job.id)): one message to the broker
Delay(n) == n + 1

\* Mutant of TaskAfter: a task that failed is put back in the queue
RetryOnFailure(outcome) == IF outcome = "success" THEN "done" ELSE "queued"

\* process_media_task returns or re-raises; the task has no retry policy
TaskAfter(outcome) == "done"

\* The file types of the uploads: an audio one, a document one, and one that
\* upload_media_file allows (settings.allowed_extensions) and that has no
\* job type
Extensions == {"mp3", "pdf", "mp4"}

\* Mutant of JobTypeOf: every file type is taken for a document
JobTypeAny(extension) == "document"

\* The job type of a file extension, in start_processing and in
\* upload_media_file; NULL where the code finds none
JobTypeOf(extension) ==
    IF extension \in {"mp3", "wav", "m4a", "aac", "ogg", "flac"} THEN "audio"
    ELSE IF extension \in {"jpg", "jpeg", "png", "gif", "bmp", "webp"}
    THEN "image"
    ELSE IF extension \in {"pdf", "docx", "doc", "txt"} THEN "document"
    ELSE NULL

\* start_processing: what the media query, the is_processed check and the
\* file type answer to user u asking for media m
StartResponse(u, m) ==
    IF media[m] = "absent" \/ MediaOwner(m) # u THEN "404"
    ELSE IF media_processed[m] THEN "400"
    ELSE IF JobTypeOf(file_type[m]) = NULL THEN "400"
    ELSE "pending"

\* cancel_job: what the job query and the status check answer to user u
\* asking to cancel job j
CancelResponse(u, j) ==
    IF JobQuery(u, j) = 0 THEN "404"
    ELSE IF ~Cancellable(jobs[j].status) THEN "400"
    ELSE "cancelled"

\* upload_media_file up to the commit of the note and the media row, for a
\* file of the given extension.  enabled: settings.enable_audio_processing
\* (settings.enable_ocr for an image); a document is processed whatever the
\* settings.
UploadMedia(u, extension, enabled) ==
    /\ BusyReqs < NumReqs
    /\ Cardinality(Uploaded) < NumMedia
    /\ JobTypeOf(extension) \in {"document", NULL} => enabled
    /\ LET m == Cardinality(Uploaded) + 1
           job_type == JobTypeOf(extension)
           auto == job_type # NULL /\ (enabled \/ job_type = "document")
       IN  /\ MediaOwner(m) = u
           /\ file_type' = [file_type EXCEPT ![m] = extension]
           /\ media' = [media EXCEPT ![m] = IF auto THEN "committed"
                                                    ELSE "present"]
    /\ UNCHANGED <<jobs, media_processed, contents, task, cancels, enqueued,
                   calls>>

\* upload_media_file: the commit of the processing job of the new media
UploadCommit(m) ==
    /\ media[m] = "committed"
    /\ Cardinality(Created) < MaxJobs
    /\ LET j == NextJobId
       IN  /\ jobs' = [jobs EXCEPT ![j] = NewJob(MediaOwner(m), m)]
           /\ task' = [task EXCEPT ![j] = "upload_unsent"]
    /\ media' = [media EXCEPT ![m] = "present"]
    /\ UNCHANGED <<file_type, media_processed, contents, cancels, enqueued, calls>>

\* upload_media_file: process_media_task.delay(str(processing_job.id)) and
\* the response
UploadEnqueue(j) ==
    /\ task[j] = "upload_unsent"
    /\ task' = [task EXCEPT ![j] = "queued"]
    /\ enqueued' = [enqueued EXCEPT ![j] = Delay(@)]
    /\ UNCHANGED <<file_type, jobs, media_processed, media, contents, cancels, calls>>

\* start_processing up to db.refresh(job): the media query, the is_processed
\* check and the commit of the new job
StartCommit(u, m) ==
    /\ BusyReqs < NumReqs
    /\ Cardinality(Created) < MaxJobs
    /\ IF StartResponse(u, m) # "pending"
       THEN \* raise HTTPException
            UNCHANGED <<jobs, task>>
       ELSE LET j == NextJobId
            IN  /\ jobs' = [jobs EXCEPT ![j] = NewJob(u, m)]
                /\ task' = [task EXCEPT ![j] = "unsent"]
    /\ UNCHANGED <<file_type, media_processed, media, contents, cancels, enqueued, calls>>

\* start_processing: the response, built from the job object refreshed after
\* the commit
StartReturn(j) ==
    [success |-> TRUE, job_id |-> j,
     status |-> NewJob(jobs[j].user_id, jobs[j].media_id).status]

\* start_processing: process_media_task.delay(str(job.id)) and the response
StartEnqueue(j) ==
    /\ task[j] = "unsent"
    /\ task' = [task EXCEPT ![j] = "queued"]
    /\ enqueued' = [enqueued EXCEPT ![j] = Delay(@)]
    /\ UNCHANGED <<file_type, jobs, media_processed, media, contents, cancels, calls>>

\* cancel_job: the job query, the 404 and the status check
CancelRead(u, j) ==
    /\ BusyReqs < NumReqs
    /\ IF CancelResponse(u, j) # "cancelled"
       THEN \* raise HTTPException
            UNCHANGED cancels
       ELSE cancels' = [cancels EXCEPT ![j] = @ + 1]
    /\ UNCHANGED <<file_type, jobs, media_processed, media, contents, task, enqueued, calls>>

\* Mutant of CancelJob: the cancellation also resets the progress
CancelJobResetProgress(job) ==
    [job EXCEPT !.status = "failed", !.error_message = CancelledByUser,
                !.progress = 0]

\* job.status = JobStatus.FAILED; job.error_message = "Cancelled by user"
CancelJob(job) ==
    [job EXCEPT !.status = "failed", !.error_message = CancelledByUser]

\* cancel_job: job.status = FAILED; job.error_message = ...; db.commit()
CancelCommit(j) ==
    /\ cancels[j] > 0
    /\ jobs' = [jobs EXCEPT ![j] = CancelJob(@)]
    /\ cancels' = [cancels EXCEPT ![j] = @ - 1]
    /\ UNCHANGED <<file_type, media_processed, media, contents, task, enqueued, calls>>

\* process_media_task: a worker takes the task and queries the job
WorkerLoad(j) ==
    /\ task[j] = "queued"
    /\ BusyWorkers < NumWorkers
    /\ IF jobs[j].status = "none"
       THEN \* raise Exception("Job not found"); `if job:` is false
            task' = [task EXCEPT ![j] = "done"]
       ELSE task' = [task EXCEPT ![j] = "loaded"]
    /\ UNCHANGED <<file_type, jobs, media_processed, media, contents, cancels, enqueued,
                   calls>>

\* process_media_task: job.status = PROCESSING; job.started_at = utcnow();
\* db.commit()
WorkerStart(j) ==
    /\ task[j] = "loaded"
    /\ jobs' = [jobs EXCEPT ![j].status = "processing",
                            ![j].started_at = "set"]
    /\ task' = [task EXCEPT ![j] = "started"]
    /\ UNCHANGED <<file_type, media_processed, media, contents, cancels, enqueued, calls>>

\* Mutant of CompleteJob: only the status is written
CompleteJobStatusOnly(job) == [job EXCEPT !.status = "completed"]

\* job.status = JobStatus.COMPLETED; job.progress = 100;
\* job.completed_at = datetime.utcnow()
CompleteJob(job) ==
    [job EXCEPT !.status = "completed", !.progress = 100,
                !.completed_at = "set"]

\* process_media_task after the first commit: the media and note queries, the
\* post to the AI service, and the commit of the result or of the except
\* branch
WorkerFinish(j, run) ==
    /\ task[j] = "started"
    /\ LET outcome == WorkerOutcome(run)
       IN  /\ IF outcome = "success"
              THEN /\ contents' = contents \cup {j}
                   /\ media_processed' =
                          [media_processed EXCEPT ![jobs[j].media_id] = TRUE]
                   /\ jobs' = [jobs EXCEPT ![j] = CompleteJob(@)]
              ELSE /\ jobs' = [jobs EXCEPT ![j].status = "failed",
                                           ![j].error_message = outcome,
                                           ![j].completed_at = "set"]
                   /\ UNCHANGED <<contents, media_processed>>
           /\ task' = [task EXCEPT ![j] = TaskAfter(outcome)]
    /\ calls' = [calls EXCEPT ![j] = @ + Posts(run)]
    /\ UNCHANGED <<file_type, media, cancels, enqueued>>

JobNext ==
    \/ \E u \in Users, e \in Extensions, enabled \in BOOLEAN :
          UploadMedia(u, e, enabled)
    \/ \E m \in MediaIds : UploadCommit(m)
    \/ \E j \in JobIds : UploadEnqueue(j)
    \/ \E u \in Users, m \in MediaIds : StartCommit(u, m)
    \/ \E j \in JobIds : StartEnqueue(j)
    \/ \E u \in Users, j \in JobIds : CancelRead(u, j)
    \/ \E j \in JobIds : CancelCommit(j)
    \/ \E j \in JobIds : WorkerLoad(j)
    \/ \E j \in JobIds : WorkerStart(j)
    \/ \E j \in JobIds, run \in Runs : WorkerFinish(j, run)

\* ------------------------------------------------------------------------
\* The registry of rate limiters of the AI service
\* ------------------------------------------------------------------------
\* The provider names get_rate_limiter constructs a limiter for
KnownProviders == {"gemini", "openai", "anthropic"}

\* The names callers pass: the known ones and one that is not
ProviderNames == KnownProviders \cup {"mistral"}

\* RateLimiter(rpm_limit=..., rpd_limit=..., provider=provider): an object
\* with empty windows; `used` is the number of requests it has recorded
NewLimiter(provider) ==
    [provider |-> provider,
     rpm_limit |-> CASE provider = "gemini" -> 10
                     [] provider = "openai" -> 60
                     [] OTHER -> 50,
     rpd_limit |-> IF provider = "gemini" THEN 4000 ELSE 10000,
     used |-> 0]

\* Mutant of Registered: the key is never found
RegisteredNever(reg, provider) == FALSE

\* not (provider not in _rate_limiters)
Registered(reg, provider) == reg[provider] # 0

\* What a get_rate_limiter call gave: the object returned (its index and the
\* number of requests it holds at the return) or the exception raised
Returned(provider, id, lims) ==
    [provider |-> provider, res |-> "instance", id |-> id,
     used |-> lims[id].used]

Raised(provider) ==
    [provider |-> provider, res |-> "ValueError", id |-> 0, used |-> 0]

NoLimiter == [provider |-> "", res |-> "none", id |-> 0, used |-> 0]

RegInit ==
    /\ rate_limiters = [p \in ProviderNames |-> 0]
    /\ limiters = << >>
    /\ got = NoLimiter

\* get_rate_limiter(provider)
GetRateLimiter(provider) ==
    IF Registered(rate_limiters, provider)
    THEN /\ got' = Returned(provider, rate_limiters[provider], limiters)
         /\ UNCHANGED <<rate_limiters, limiters>>
    ELSE IF provider \in KnownProviders
    THEN /\ limiters' = Append(limiters, NewLimiter(provider))
         /\ rate_limiters' =
               [rate_limiters EXCEPT ![provider] = Len(limiters) + 1]
         /\ got' = Returned(provider, Len(limiters) + 1, limiters')
    ELSE /\ got' = Raised(provider)
         /\ UNCHANGED <<rate_limiters, limiters>>

\* LLMService.generate: the service acquires on the limiter it got from
\* get_rate_limiter, which records one more request in that object
LimiterUse(provider) ==
    /\ rate_limiters[provider] # 0
    /\ limiters[rate_limiters[provider]].used < MaxUse
    /\ limiters' = [limiters EXCEPT ![rate_limiters[provider]].used = @ + 1]
    /\ UNCHANGED <<rate_limiters, got>>

RegNext ==
    \/ \E p \in ProviderNames : GetRateLimiter(p)
    \/ \E p \in ProviderNames : LimiterUse(p)

\* ------------------------------------------------------------------------
\* The JWT utilities of the backend
\* ------------------------------------------------------------------------
None == "None"

\* str(user.id) of a user's UUID
UUIDStr(u) == IF u = 1 THEN "uuid-1" ELSE "uuid-2"

\* UUID(user_id): the UUID a string denotes, 0 where UUID() raises ValueError
UUIDOf(str) ==
    IF \E u \in Users : UUIDStr(u) = str
    THEN CHOOSE u \in Users : UUIDStr(u) = str
    ELSE 0

\* The `data` dictionaries callers pass: the login endpoint's, one without
\* email, one without subject, one whose subject is no UUID
TokenData ==
    [sub : {UUIDStr(u) : u \in Users} \cup {None, "user123"},
     email : {"test@example.com", None}]

\* expires_delta=None
NoDelta == [given |-> FALSE, ticks |-> 0]

\* The expires_delta arguments: None, or a timedelta of some ticks
Deltas ==
    {NoDelta} \cup
       {[given |-> TRUE, ticks |-> d] : d \in {-TicksPerSecond, -1, 0, 1}}

jwt_secret_key == "your-super-secret-jwt-key-change-this-in-production"

\* timegm(value.utctimetuple()): a datetime as whole seconds since the epoch
Timegm(dt) == dt \div TicksPerSecond

\* jwt.encode(to_encode, key, algorithm): a datetime under "exp" becomes a
\* NumericDate, and the claims are signed with the key.  expire (the
\* datetime the creator computed) is kept beside the token for reference.
JwtEncode(data, expire, type, key) ==
    [claims |-> [sub |-> data.sub, email |-> data.email,
                 exp |-> Timegm(expire), type |-> type],
     key |-> key, expire |-> expire]

NoToken ==
    [claims |-> [sub |-> None, email |-> None, exp |-> 0, type |-> "none"],
     key |-> "", expire |-> 0]

\* Mutant of Expired: a token is expired from the second of its exp on
ExpiredAtExp(exp, secs) == exp <= secs

\* jose's expiry validation: `if exp < (now - leeway)` with leeway 0 raises
\* ExpiredSignatureError
Expired(exp, secs) == exp < secs

\* create_access_token / create_refresh_token: the expire datetime
AccessExpire(expires_delta) ==
    IF expires_delta.given /\ expires_delta.ticks # 0
    THEN clock + expires_delta.ticks
    ELSE clock + access_token_expire

RefreshExpire == clock + refresh_token_expire

\* decode_token(token) at the given time
decode_token(tok, utcnow) ==
    IF tok.key # jwt_secret_key \/ Expired(tok.claims.exp, Timegm(utcnow))
    THEN [res |-> "JWTError", user_id |-> 0, email |-> None]
    ELSE IF tok.claims.sub = None
    THEN [res |-> "JWTError", user_id |-> 0, email |-> None]
    ELSE IF UUIDOf(tok.claims.sub) = 0
    THEN [res |-> "ValueError", user_id |-> 0, email |-> None]
    ELSE [res |-> "ok", user_id |-> UUIDOf(tok.claims.sub),
          email |-> tok.claims.email]

AuthInit ==
    /\ clock = TicksPerSecond
    /\ token = NoToken
    /\ decoded = [res |-> "none", user_id |-> 0, email |-> None]

\* create_access_token(data, expires_delta)
CreateAccessToken(data, expires_delta) ==
    /\ token' = JwtEncode(data, AccessExpire(expires_delta), "access",
                           jwt_secret_key)
    /\ UNCHANGED <<clock, decoded>>

\* create_refresh_token(data)
CreateRefreshToken(data) ==
    /\ token' = JwtEncode(data, RefreshExpire, "refresh", jwt_secret_key)
    /\ UNCHANGED <<clock, decoded>>

\* decode_token(token) on the token in hand
DecodeToken ==
    /\ token # NoToken
    /\ decoded' = decode_token(token, clock)
    /\ UNCHANGED <<clock, token>>

\* Time passes
AuthTick ==
    /\ clock < AuthHorizon
    /\ clock' = clock + 1
    /\ UNCHANGED <<token, decoded>>

AuthNext ==
    \/ \E data \in TokenData, d \in Deltas : CreateAccessToken(data, d)
    \/ \E data \in TokenData : CreateRefreshToken(data)
    \/ DecodeToken
    \/ AuthTick

SvcInit ==
    /\ RegInit
    /\ AuthInit

Init ==
    /\ RLInit
    /\ JobInit
    /\ SvcInit
    /\ last = Step("init", NoCaller, "ok", 0)

\* The rate limiter of the AI service
Next == RLNext /\ UNCHANGED <<job_vars, svc_vars>>

Spec == Init /\ [][Next]_vars

\* The job dispatcher of the backend
JobStep == JobNext /\ UNCHANGED <<rl_vars, svc_vars, last>>

JobSpec == Init /\ [][JobStep]_vars

\* The limiter registry of the AI service
RegStep == RegNext /\ UNCHANGED <<rl_vars, job_vars, auth_vars, last>>

RegSpec == Init /\ [][RegStep]_vars

\* The JWT utilities of the backend
AuthStep == AuthNext /\ UNCHANGED <<rl_vars, job_vars, reg_vars, last>>

AuthSpec == Init /\ [][AuthStep]_vars

\* The clock keeps advancing, and the event loop resumes a coroutine whose
\* asyncio.sleep is due.
FairSpec ==
    /\ Spec
    /\ WF_vars(Tick /\ UNCHANGED <<job_vars, svc_vars>>)
    /\ \A c \in Callers : WF_vars(Wake(c) /\ UNCHANGED <<job_vars, svc_vars>>)

\* The broker and the workers are up: a task that was committed is sent, a
\* queued task is taken by a worker, and the worker's queries, its post to
\* the AI service (which returns or fails within the httpx timeout) and its
\* commits come to an end.
JobFairSpec ==
    /\ JobSpec
    /\ \A j \in JobIds :
          /\ WF_vars(StartEnqueue(j) /\ UNCHANGED <<rl_vars, svc_vars, last>>)
          /\ WF_vars(UploadEnqueue(j) /\ UNCHANGED <<rl_vars, svc_vars, last>>)
          /\ WF_vars(WorkerLoad(j) /\ UNCHANGED <<rl_vars, svc_vars, last>>)
          /\ WF_vars(WorkerStart(j) /\ UNCHANGED <<rl_vars, svc_vars, last>>)
          /\ WF_vars((\E run \in Runs : WorkerFinish(j, run))
                        /\ UNCHANGED <<rl_vars, svc_vars, last>>)

\* ------------------------------------------------------------------------
\* Properties of the rate limiter
\* ------------------------------------------------------------------------
\* The step just taken appended a request to both windows
Recorded == last.op \in {"acquire", "wake"} /\ last.res = "ok"

\* The step just taken ran the body of acquire() for caller c
RanBody(c) ==
    /\ last.op = "acquire"
    /\ last.who = c
    /\ last.res \in {"raised", "sleep", "ok"}

LockWaiting == {c \in Callers : pc[c] \in {"acquire_lockwait", "check_lockwait"}}

\* C1: after every record step the minute window holds at most rpm_limit
\* entries, also when the oldest entry is exactly 60 seconds old at the check
\* and when the caller has just woken from its wait.
C1_MinuteWindowBound == Recorded => Len(minute_requests) <= rpm_limit

\* C2: within one calendar day the first rpd_limit acquire() calls never
\* raise RateLimitExceeded, the (rpd_limit + 1)-th raises it, and the number
\* of requests admitted on one day never exceeds rpd_limit.
C2_DailyQuota ==
    /\ \A c \in Callers :
         RanBody(c) => (last.res = "raised" <=> last.no > rpd_limit)
    /\ \A d \in Days : admitted_on[d] <= rpd_limit

\* The parts of C2 that hold: the k-th acquire() of a day raises exactly when
\* k > rpd_limit, and the calls made on one day record at most rpd_limit
\* requests.
DailyQuotaByCallDate ==
    /\ \A c \in Callers :
         RanBody(c) => (last.res = "raised" <=> last.no > rpd_limit)
    /\ \A d \in Days : admitted_for[d] <= rpd_limit

\* C3: while a caller of acquire() is suspended waiting for per-minute
\* capacity the mutex is not held, so no other caller is kept waiting for it.
C3_LockFreeWhileSuspended ==
    \A c \in Callers :
        pc[c] = "sleeping" => (lock_owner # c /\ LockWaiting = {})

\* C7: callers of acquire() are mutually exclusive over the
\* purge/check/record sequence: at most one caller is between its capacity
\* check and its record step, and that caller holds the lock.
C7_MutualExclusion ==
    /\ Cardinality({c \in Callers : pc[c] = "sleeping"}) <= 1
    /\ \A c \in Callers : pc[c] = "sleeping" => lock_owner = c
    /\ \A c \in Callers : lock_owner = c => pc[c] = "sleeping"

\* A caller is suspended between check and record while another caller of
\* acquire() is queued behind it.
C7_Witness ==
    \E c, d \in Callers : pc[c] = "sleeping" /\ pc[d] = "acquire_lockwait"

\* C8: when the purged day window holds at least rpd_limit entries,
\* acquire() raises RateLimitExceeded in the same step, without suspending
\* and without recording, whatever the minute window holds.
C8_DailyLimitFailsFast ==
    [][\A c \in Callers :
         (/\ RanBody(c)'
          /\ Len(CleanDay(day_requests, Date(now))) >= rpd_limit)
            => /\ last'.res = "raised"
               /\ pc'[c] = "idle"
               /\ minute_requests' = CleanMinute(minute_requests, now)
               /\ day_requests' = CleanDay(day_requests, Date(now))]_vars

\* acquire() has just raised while the minute window was full with a
\* positive wait time.
C8_Witness ==
    /\ last.op = "acquire"
    /\ last.res = "raised"
    /\ Len(minute_requests) >= rpm_limit
    /\ now - Head(minute_requests) < MinuteWindow

\* C9: with the minute window full and the daily quota not exhausted,
\* acquire() suspends the caller until 60 - (now - oldest) seconds have
\* passed, does not return before the oldest entry is 60 seconds old, and
\* every such call eventually returns with the request recorded.
C9_WaitThenSucceed ==
    /\ [][\A c \in Callers :
            (/\ RanBody(c)'
             /\ Len(CleanDay(day_requests, Date(now))) < rpd_limit
             /\ Len(CleanMinute(minute_requests, now)) >= rpm_limit)
            => LET oldest == Head(CleanMinute(minute_requests, now))
               IN  IF MinuteWindow - (now - oldest) > 0
                   THEN /\ pc'[c] = "sleeping"
                        /\ wake_at'[c] = now + MinuteWindow - (now - oldest)
                   ELSE /\ last'.res = "ok"
                        /\ now >= oldest + MinuteWindow]_vars
    /\ [][\A c \in Callers :
            (pc[c] = "sleeping" /\ pc'[c] # "sleeping")
            => /\ now' >= oldest_seen[c] + MinuteWindow
               /\ last' = Step("wake", c, "ok", 0)
               /\ minute_requests' # <<>>
               /\ minute_requests'[Len(minute_requests')] = now'
               /\ Len(day_requests') = Len(CleanDay(day_requests, current_date[c])) + 1]_vars
    /\ \A c \in Callers :
         (pc[c] = "sleeping") ~> (last = Step("wake", c, "ok", 0))

\* A caller that was suspended has woken and recorded its request.
C9_Witness == last.op = "wake" /\ last.res = "ok"

\* C10: when consecutive acquire() calls are at least 60/rpm_limit seconds
\* apart, no call enters the wait branch.
C10_SpacedNeverSleeps == spaced => ~ever_slept

\* A spaced sequence has just recorded into a minute window that already
\* held rpm_limit entries.
C10_Witness ==
    /\ spaced
    /\ last.op = "acquire"
    /\ last.res = "ok"
    /\ Len(minute_requests) > rpm_limit

\* ------------------------------------------------------------------------
\* Properties of the job dispatcher
\* ------------------------------------------------------------------------
AllowedEdges ==
    {<<"pending", "processing">>, <<"processing", "completed">>,
     <<"processing", "failed">>, <<"pending", "failed">>}

\* A cancel_job request commits its cancellation of job j in this step
CancelCommits(j) == cancels'[j] = cancels[j] - 1

\* A cancel_job request passes its status check for job j in this step
CancelAccepts(j) == cancels'[j] = cancels[j] + 1

\* C4: a job's status changes only along pending->processing,
\* processing->completed, processing->failed and pending->failed, under every
\* interleaving of submit, cancel_job and process_media_task.
C4_StatusEdges ==
    [][\A j \in JobIds :
         (jobs[j].status # "none" /\ jobs'[j].status # jobs[j].status)
            => <<jobs[j].status, jobs'[j].status>> \in AllowedEdges]_vars

\* C5: cancel_job goes on to its commit only for a job it read as pending,
\* and the commit sets status failed and error_message "Cancelled by user";
\* cancel_job by the owner of a job that is processing, completed or failed
\* answers 400, and no step takes such a request on towards a commit.
C5_CancelPendingOnly ==
    [][\A j \in JobIds :
         /\ CancelAccepts(j) => jobs[j].status = "pending" /\ jobs' = jobs
         /\ CancelCommits(j)
               => /\ jobs'[j].status = "failed"
                  /\ jobs'[j].error_message = CancelledByUser
                  /\ \A k \in JobIds \ {j} : jobs'[k] = jobs[k]
         /\ jobs[j].status \in {"processing", "completed", "failed"}
               => /\ CancelResponse(jobs[j].user_id, j) = "400"
                  /\ ~CancelAccepts(j)]_vars

\* One job was cancelled while pending and the cancellation of a processing
\* job is rejected.
C5_Witness ==
    \E j, k \in JobIds :
        /\ jobs[j].status = "failed"
        /\ jobs[j].error_message = CancelledByUser
        /\ jobs[j].started_at = NULL
        /\ jobs[k].status = "processing"
        /\ CancelResponse(jobs[k].user_id, k) = "400"
        /\ cancels[k] = 0

\* C6: once the worker has committed status processing for a job, cancel_job
\* never writes status failed and "Cancelled by user" to that job.
C6_NoCancelAfterStart ==
    [][\A j \in JobIds :
         CancelCommits(j) => jobs[j].started_at = NULL]_vars

\* s is what is left of t after dropping entries from its front
IsSuffix(s, t) == \E k \in 0..Len(t) : s = SubSeq(t, k + 1, Len(t))

Front(s) == SubSeq(s, 1, Len(s) - 1)

\* The step just taken recorded a request: an acquire() that returned at
\* once, or one that returns from its sleep
Recording == last'.op \in {"acquire", "wake"} /\ last'.res = "ok"

\* C19: an acquire() that succeeds appends one entry to the minute window
\* and one to the day window, the purge aside, and one that returns without
\* sleeping has found the day window short of rpd_limit and the minute window
\* short of rpm_limit or its oldest entry 60 s old; an acquire() that raises,
\* and every other step, appends nothing, and the raise comes from a full day
\* window.
C19_RecordAfterChecks ==
    [][/\ Recording
            => /\ minute_requests' # <<>>
               /\ minute_requests'[Len(minute_requests')] = now
               /\ IsSuffix(Front(minute_requests'), minute_requests)
               /\ day_requests' # <<>>
               /\ IsSuffix(Front(day_requests'), day_requests)
       /\ (Recording /\ last'.op = "acquire")
            => LET mr == CleanMinute(minute_requests, now)
                   dr == CleanDay(day_requests, Date(now))
               IN  /\ Len(dr) < rpd_limit
                   /\ Len(mr) < rpm_limit \/ now - Head(mr) >= MinuteWindow
       /\ ~Recording
            => /\ IsSuffix(minute_requests', minute_requests)
               /\ IsSuffix(day_requests', day_requests)
       /\ last'.res = "raised"
            => Len(CleanDay(day_requests, Date(now))) >= rpd_limit]_vars

\* An acquire() has just raised on a full day window, after another one had
\* slept and recorded its request.
C19_Witness ==
    /\ last.res = "raised"
    /\ ever_slept
    /\ Len(day_requests) = rpd_limit
    /\ \A c \in Callers : pc[c] # "sleeping"

\* The body of check_availability(), taken alone: it returns true exactly
\* when, after the purge, the day window is short of rpd_limit and the minute
\* window short of rpm_limit; it leaves the windows purged with nothing
\* added, and it returns in the step in which it got the lock.
CheckAvailabilityBody ==
    [][(last'.op = "check" /\ last'.res # "lockwait")
          => LET mr == CleanMinute(minute_requests, now)
                 dr == CleanDay(day_requests, Date(now))
             IN  /\ last'.res = "true"
                       <=> (Len(dr) < rpd_limit /\ Len(mr) < rpm_limit)
                 /\ minute_requests' = mr
                 /\ day_requests' = dr
                 /\ pc'[last'.who] = "idle"
                 /\ lock_owner' = NoCaller]_vars

\* C20: check_availability() returns true exactly when, after the purge, the
\* day window is short of rpd_limit and the minute window short of
\* rpm_limit; it adds no entry; and a call of it is never held up while a
\* caller waits for room in the minute window.
C20_CheckNeverWaits ==
    /\ CheckAvailabilityBody
    /\ [](\A c, d \in Callers :
            ~(pc[c] = "check_lockwait" /\ pc[d] = "sleeping"))

\* The step just taken ran the capacity checks of acquire() or of
\* check_availability()
Checking == last'.op \in {"acquire", "check"} /\ last'.res # "lockwait"

\* C21: when acquire() or check_availability() has run its capacity checks,
\* the minute window holds only timestamps of the last 60 seconds and the day
\* window only entries of today; and the first acquire() to run its checks
\* on a date does not raise, whatever was recorded the day before.
C21_WindowsPurgedAtChecks ==
    [][Checking
          => /\ \A i \in 1..Len(minute_requests') :
                   /\ minute_requests'[i] >= now - MinuteWindow
                   /\ minute_requests'[i] <= now
             /\ \A i \in 1..Len(day_requests') :
                   day_requests'[i] = Date(now)
             /\ (last'.op = "acquire" /\ last'.no = 1)
                   => last'.res # "raised"]_vars

\* The quota of the first day was used up, and the first acquire() of the
\* second day has just been admitted.
C21_Witness ==
    /\ Date(now) = Date(StartTime) + 1
    /\ admitted_on[Date(StartTime)] >= rpd_limit
    /\ last.op = "acquire"
    /\ last.res = "ok"
    /\ last.no = 1
    /\ Len(day_requests) = 1

\* ------------------------------------------------------------------------
\* Properties of the worker, the AI service and the job endpoints
\* ------------------------------------------------------------------------
\* C11: when the provider call made for a job fails, by RateLimitExceeded
\* from acquire() or by an error of the provider, the worker ends the job
\* with status failed and an error_message, never with completed.
C11_ProviderFailureFailsJob ==
    [][\A j \in JobIds, run \in Runs :
         (run.gen # "ok" /\ WorkerFinish(j, run))
            => /\ jobs'[j].status = "failed"
               /\ jobs'[j].error_message # NULL]_vars

\* C12: the worker posts a job to the AI service at most once; a task that
\* has finished, failed or not, never runs again; and the only tasks sent
\* to the broker are those of newly created jobs, one that has never run.
C12_NoAutomaticRetry ==
    [][\A j \in JobIds :
         /\ calls'[j] <= 1
         /\ task[j] = "done" => task'[j] = "done"
         /\ task'[j] = "queued" /\ task[j] # "queued"
               => /\ task[j] \in {"unsent", "upload_unsent"}
                  /\ calls[j] = 0]_vars

\* A job failed in the worker after its post to the AI service, and a later
\* job for the same media was posted too.
C12_Witness ==
    \E j, k \in JobIds :
        /\ j < k
        /\ jobs[j].status = "failed"
        /\ jobs[j].error_message \in {HTTPStatusError, ProcessingFailed}
        /\ task[j] = "done"
        /\ calls[j] = 1
        /\ jobs[k].media_id = jobs[j].media_id
        /\ calls[k] = 1

\* C13: get_job_status and cancel_job answer 404, and get_job_status shows no
\* field of the record, exactly when the job does not exist or belongs to
\* another user; a cancel_job request of a user who does not own the job
\* changes nothing.
C13_ForeignJobNotFound ==
    /\ [](\A u \in Users, j \in JobIds :
            LET foreign == jobs[j].status = "none" \/ jobs[j].user_id # u
            IN  /\ foreign <=> GetStatusResponse(u, j).code = 404
                /\ foreign => GetStatusResponse(u, j).job = NoJob
                /\ foreign <=> CancelResponse(u, j) = "404")
    /\ [][\A u \in Users, j \in JobIds :
            (jobs[j].user_id # u /\ CancelRead(u, j))
               => UNCHANGED job_vars]_vars

\* A job in progress that its owner can read and cancel_job rejects with 400,
\* while another user is answered 404 by both endpoints.
C13_Witness ==
    \E u \in Users, j \in JobIds :
        /\ jobs[j].status = "processing"
        /\ jobs[j].user_id # u
        /\ GetStatusResponse(u, j).code = 404
        /\ CancelResponse(u, j) = "404"
        /\ GetStatusResponse(jobs[j].user_id, j).job = jobs[j]

\* C14: for every job exactly one process_media task is sent to the broker,
\* by the handler that created the job; no task exists before the job does,
\* and a worker runs a job only as that one task.
C14_OneTaskPerJob ==
    \A j \in JobIds :
        /\ enqueued[j] <= 1
        /\ jobs[j].status = "none" => enqueued[j] = 0 /\ task[j] = "none"
        /\ task[j] \in {"unsent", "upload_unsent"} => enqueued[j] = 0
        /\ task[j] \in {"queued", "loaded", "started", "done"}
              => enqueued[j] = 1 /\ jobs[j].status # "none"

\* Two jobs of the same media, each sent once, are in two workers at once.
C14_Witness ==
    \E j, k \in JobIds :
        /\ j # k
        /\ jobs[j].media_id = jobs[k].media_id
        /\ task[j] = "started" /\ enqueued[j] = 1
        /\ task[k] = "started" /\ enqueued[k] = 1

Terminal(st) == st \in {"completed", "failed"}

\* C15: every creation of a job takes an id no job has, so that concurrent
\* submits give distinct jobs and none overwrites another; every job that was
\* created has its task finished at some time, and from then on its status is
\* completed or failed; the step that ends one job changes no other job.
C15_IndependentJobs ==
    /\ [][\A j \in JobIds :
            /\ (task'[j] \in {"unsent", "upload_unsent"} /\ task'[j] # task[j])
                  => /\ jobs[j].status = "none"
                     /\ jobs'[j].status = "pending"
                     /\ \A k \in JobIds \ {j} : jobs'[k] = jobs[k]
            /\ jobs[j].status # "none"
                  => /\ jobs'[j].media_id = jobs[j].media_id
                     /\ jobs'[j].user_id = jobs[j].user_id
            /\ \A run \in Runs :
                  WorkerFinish(j, run)
                     => \A k \in JobIds \ {j} : jobs'[k] = jobs[k]]_vars
    /\ \A j \in JobIds :
          (jobs[j].status # "none") ~> (task[j] = "done")
    /\ [](\A j \in JobIds : task[j] = "done" => Terminal(jobs[j].status))

\* Two jobs of different media have both ended, one completed and one failed
\* in the worker.
C15_Witness ==
    \E j, k \in JobIds :
        /\ jobs[j].media_id # jobs[k].media_id
        /\ task[j] = "done" /\ jobs[j].status = "completed"
        /\ task[k] = "done" /\ jobs[k].status = "failed"
        /\ jobs[k].error_message \in {HTTPStatusError, ProcessingFailed}

\* C16: start_processing commits its job as pending under a new id before it
\* sends the task; it sends one task, for that job; and it returns that id
\* with status "pending" when the task is only queued, no worker having
\* taken it.
C16_SubmitThenEnqueue ==
    [][\A j \in JobIds :
         /\ (task'[j] = "unsent" /\ task[j] # "unsent")
               => /\ jobs[j].status = "none"
                  /\ jobs'[j].status = "pending"
                  /\ enqueued'[j] = 0
         /\ (task[j] = "unsent" /\ task'[j] # "unsent")
               => /\ jobs[j].status # "none"
                  /\ enqueued'[j] = 1
                  /\ \A k \in JobIds \ {j} : enqueued'[k] = enqueued[k]
                  /\ task'[j] = "queued"
                  /\ jobs'[j].started_at = NULL
                  /\ calls'[j] = 0
                  /\ StartReturn(j).job_id = j
                  /\ StartReturn(j).status = "pending"]_vars

\* Two pending jobs of one media, of which upload_media_file created at most
\* one, have been answered and wait in the broker.
C16_Witness ==
    \E j, k \in JobIds :
        /\ j # k
        /\ jobs[j].media_id = jobs[k].media_id
        /\ jobs[j].status = "pending" /\ task[j] = "queued" /\ enqueued[j] = 1
        /\ jobs[k].status = "pending" /\ task[k] = "queued" /\ enqueued[k] = 1
        /\ BusyReqs = 0

\* C17: a completed job has progress 100, started_at and completed_at set and
\* a ProcessedContent row of its own; the step that makes a job completed
\* writes the progress, completed_at and the row, started_at being set since
\* the job became processing.
C17_CompletedIsWhole ==
    /\ [](\A j \in JobIds :
            jobs[j].status = "completed"
               => /\ jobs[j].progress = 100
                  /\ jobs[j].started_at # NULL
                  /\ jobs[j].completed_at # NULL
                  /\ j \in contents)
    /\ [][\A j \in JobIds :
            (jobs'[j].status = "completed" /\ jobs[j].status # "completed")
               => /\ jobs[j].started_at # NULL
                  /\ jobs[j].completed_at = NULL
                  /\ jobs'[j].progress = 100
                  /\ jobs'[j].completed_at # NULL
                  /\ j \notin contents /\ j \in contents']_vars

\* A job is completed and its result row is stored.
C17_Witness ==
    \E j \in JobIds :
        /\ jobs[j].status = "completed"
        /\ jobs[j].progress = 100
        /\ j \in contents
        /\ media_processed[jobs[j].media_id]

\* The messages of the failures process_media_task can end with
WorkerFailures == CallOutcomes \ {"success"}

\* The commit of the except branch of process_media_task, taken alone: a run
\* that fails writes status failed, the message of its failure and
\* completed_at.
WorkerFailureRecorded ==
    [][\A j \in JobIds, run \in Runs :
         (WorkerOutcome(run) # "success" /\ WorkerFinish(j, run))
            => /\ jobs'[j].status = "failed"
               /\ jobs'[j].error_message = WorkerOutcome(run)
               /\ jobs'[j].completed_at # NULL]_vars

\* C18: a job whose worker failed after loading it ends with status failed,
\* the message of that failure as error_message and completed_at set: the
\* failing run writes them, and they are the job's final record.
C18_WorkerFailureIsFinal ==
    [][\A j \in JobIds :
         /\ \A run \in Runs :
               (WorkerOutcome(run) # "success" /\ WorkerFinish(j, run))
                  => /\ jobs'[j].status = "failed"
                     /\ jobs'[j].error_message = WorkerOutcome(run)
                     /\ jobs'[j].completed_at # NULL
         /\ (/\ task[j] = "done"
             /\ jobs[j].status = "failed"
             /\ jobs[j].error_message \in WorkerFailures)
               => jobs'[j] = jobs[j]]_vars

\* C22: a job's progress is a whole number from 0 to 100, no step lowers it,
\* and it is 0 until the worker completes the job, that is as long as the job
\* has no result row.
C22_ProgressMonotone ==
    /\ [](\A j \in JobIds :
            /\ jobs[j].progress \in 0..100
            /\ (jobs[j].progress # 0) <=> (j \in contents))
    /\ [][\A j \in JobIds :
            jobs[j].status # "none"
               => jobs'[j].progress >= jobs[j].progress]_vars

\* A job was completed by the worker and then written failed by a late
\* cancel_job commit: its progress is still 100.
C22_Witness ==
    \E j \in JobIds :
        /\ jobs[j].status = "failed"
        /\ jobs[j].error_message = CancelledByUser
        /\ j \in contents
        /\ jobs[j].progress = 100

\* ------------------------------------------------------------------------
\* Properties of the limiter registry
\* ------------------------------------------------------------------------
\* C23: get_rate_limiter constructs the limiter of a known provider at the
\* first call for it, with empty windows, and every later call returns that
\* very object with the requests it has recorded since; a call with an
\* unknown name raises ValueError and leaves the registry as it was.  A key
\* once set is never rebound and no object loses what it recorded.
C23_OneLimiterPerProvider ==
    [][/\ \A p \in ProviderNames :
             GetRateLimiter(p) =>
                IF p \notin KnownProviders
                THEN /\ got'.res = "ValueError"
                     /\ rate_limiters' = rate_limiters
                     /\ limiters' = limiters
                ELSE IF rate_limiters[p] = 0
                THEN /\ got'.res = "instance"
                     /\ got'.id = Len(limiters) + 1
                     /\ got'.used = 0
                     /\ rate_limiters'[p] = got'.id
                     /\ \A q \in ProviderNames \ {p} :
                           rate_limiters'[q] = rate_limiters[q]
                     /\ Len(limiters') = Len(limiters) + 1
                     /\ limiters'[got'.id].provider = p
                     /\ \A i \in 1..Len(limiters) : limiters'[i] = limiters[i]
                ELSE /\ got'.res = "instance"
                     /\ got'.id = rate_limiters[p]
                     /\ got'.used = limiters[rate_limiters[p]].used
                     /\ rate_limiters' = rate_limiters
                     /\ limiters' = limiters
       /\ \A p \in ProviderNames :
             rate_limiters[p] # 0 => rate_limiters'[p] = rate_limiters[p]
       /\ \A i \in 1..Len(limiters) :
             /\ limiters'[i].provider = limiters[i].provider
             /\ limiters'[i].used >= limiters[i].used]_vars

\* A later call for a provider returned the object that has recorded requests
\* since its construction, while all three known providers are registered.
C23_Witness ==
    /\ got.res = "instance"
    /\ got.used = MaxUse
    /\ got.id = rate_limiters[got.provider]
    /\ \A p \in KnownProviders : rate_limiters[p] # 0
    /\ rate_limiters["mistral"] = 0

\* ------------------------------------------------------------------------
\* Properties of the job endpoints and the worker, continued
\* ------------------------------------------------------------------------
\* The file types start_processing has a job type for
Processable ==
    {"mp3", "wav", "m4a", "aac", "ogg", "flac", "jpg", "jpeg", "png", "gif",
     "bmp", "webp", "pdf", "docx", "doc", "txt"}

\* C24: start_processing answers 404 when the media is not the caller's, 400
\* when media.is_processed is set and 400 when the file type is not an audio,
\* image or document one; in each of these cases it adds no job row and
\* enqueues no task.  Hence every job is a job of the owner of its media, on
\* a file type that has a job type.
C24_RejectedStartCreatesNothing ==
    /\ [][\A u \in Users, m \in MediaIds :
            StartCommit(u, m) =>
               /\ (media[m] = "absent" \/ MediaOwner(m) # u)
                     => /\ StartResponse(u, m) = "404"
                        /\ UNCHANGED <<jobs, task, enqueued>>
               /\ (media[m] # "absent" /\ MediaOwner(m) = u
                      /\ (media_processed[m]
                             \/ file_type[m] \notin Processable))
                     => /\ StartResponse(u, m) = "400"
                        /\ UNCHANGED <<jobs, task, enqueued>>]_vars
    /\ [](\A j \in Created :
            /\ jobs[j].user_id = MediaOwner(jobs[j].media_id)
            /\ file_type[jobs[j].media_id] \in Processable)

\* start_processing can be called, and there is a media of each rejected
\* kind: one of another user, one already processed, one of a file type
\* without job type.
C24_Witness ==
    /\ BusyReqs < NumReqs
    /\ Cardinality(Created) < MaxJobs
    /\ \E m1, m2 \in MediaIds :
          /\ media[m1] = "present" /\ file_type[m1] = "mp4"
          /\ media[m2] = "present" /\ media_processed[m2]
          /\ MediaOwner(m1) # MediaOwner(m2)

\* media.is_processed is set only by the commit that marks a job of that
\* media completed, and no step clears it.
ProcessedOnlyOnCompletion ==
    [][\A m \in MediaIds :
         /\ media_processed[m] => media_processed'[m]
         /\ (~media_processed[m] /\ media_processed'[m])
               => \E j \in JobIds :
                     /\ jobs[j].media_id = m
                     /\ jobs[j].status # "completed"
                     /\ jobs'[j].status = "completed"]_vars

\* The job has ended failed: its task is done, no cancel_job request on it is
\* under way, and its row says failed
EndedFailed(j) ==
    /\ jobs[j].status = "failed"
    /\ task[j] \in {"done", "none"}
    /\ cancels[j] = 0

\* C25: media.is_processed goes from false to true only in the commit that
\* marks a job of that media completed; where a job has ended failed and no
\* job of its media is completed, is_processed is false and start_processing
\* of the owner for that media is accepted.
C25_FailedJobLeavesUnprocessed ==
    /\ ProcessedOnlyOnCompletion
    /\ [](\A j \in JobIds :
            (/\ EndedFailed(j)
             /\ \A k \in JobIds :
                   jobs[k].media_id = jobs[j].media_id
                      => jobs[k].status # "completed")
               => /\ ~media_processed[jobs[j].media_id]
                  /\ StartResponse(jobs[j].user_id, jobs[j].media_id)
                        = "pending")

\* ------------------------------------------------------------------------
\* Properties of the JWT utilities
\* ------------------------------------------------------------------------
\* The token in hand was made by create_access_token or create_refresh_token
\* from a user's id
EncodesUser == token # NoToken /\ UUIDOf(token.claims.sub) # 0

CancelledWhilePending(j) ==
    /\ jobs[j].status = "failed"
    /\ jobs[j].error_message = CancelledByUser
    /\ jobs[j].started_at = NULL

\* C27: a job cancelled while pending is never executed: from then on no
\* step posts to the AI service for it and no step changes its row, which
\* keeps status failed and "Cancelled by user".
C27_CancelledNeverExecuted ==
    [][\A j \in JobIds :
         CancelledWhilePending(j)
            => /\ calls'[j] = calls[j]
               /\ jobs'[j] = jobs[j]]_vars

\* C28: for every media, at most one job has a result row (a row is written
\* in the commit that completes its job and never removed, so these are the
\* jobs that ever reached completed), and at most one job is completed.
C28_OneCompletionPerMedia ==
    \A m \in MediaIds :
        /\ Cardinality({j \in contents : jobs[j].media_id = m}) <= 1
        /\ Cardinality({j \in JobIds : /\ jobs[j].media_id = m
                                       /\ jobs[j].status = "completed"}) <= 1

\* C29: the date a recording step appends to the day window is the date of
\* the clock at that step, also where the caller's wait for minute capacity
\* crossed midnight.
C29_RecordedOnCurrentDate ==
    [][Recording
          => /\ Len(day_requests') > 0
             /\ day_requests'[Len(day_requests')] = Date(now')]_vars

\* The entries of a window that are still inside it: timestamps of the last
\* minute, dates from today on
FreshMinute(w, t) == SelectSeq(w, LAMBDA x : x >= t - MinuteWindow)

FreshDay(w, d) == SelectSeq(w, LAMBDA x : x >= d)

\* The step just taken ran get_usage_stats or the body of check_availability
Reporting ==
    \/ last'.op = "stats"
    \/ last'.op = "check" /\ last'.res # "lockwait"

\* The step just taken ran the body of acquire() up to its return, its raise
\* or its sleep
Gating == last'.op = "acquire" /\ last'.res # "lockwait"

\* C30: status reporting does not influence gating.  A get_usage_stats or
\* check_availability step drops exactly the entries that are outside the
\* windows, appends nothing, and leaves alone whatever else acquire() reads or
\* counts; a queued check_availability only joins the lock's queue.  Every
\* acquire() decides on the entries inside the windows alone: whether it
\* raises, sleeps (and until when) or records, and what the windows hold
\* inside afterwards, are functions of those entries, the clock and the
\* caller's own locals.  So the same acquire() calls succeed, wait or raise
\* and record the same entries whether or not status calls are inserted.
\* The rpm_used and rpd_used reported are the lengths of the purged windows
\* and rpm_remaining, rpd_remaining are never negative.
C30_ReportingDoesNotGate ==
    [][/\ Reporting
          => /\ minute_requests' = FreshMinute(minute_requests, now)
             /\ day_requests' = FreshDay(day_requests, Date(now))
             /\ UNCHANGED <<now, current_date, wake_at, oldest_seen,
                            day_calls, admitted_for, admitted_on, last_call,
                            spaced, ever_slept, total_calls>>
             /\ \A c \in Callers :
                   pc[c] \in {"sleeping", "acquire_lockwait"}
                      => pc'[c] = pc[c]
             /\ last'.op = "stats"
                   => /\ UNCHANGED <<lock_owner, lock_waiters, pc>>
                      /\ LET s == UsageStats(minute_requests', day_requests')
                         IN  /\ s.rpm_used
                                  = Len(FreshMinute(minute_requests, now))
                             /\ s.rpd_used
                                  = Len(FreshDay(day_requests, Date(now)))
                             /\ s.rpm_remaining >= 0
                             /\ s.rpd_remaining >= 0
       /\ (last'.op = "check" /\ last'.res = "lockwait")
          => UNCHANGED <<now, minute_requests, day_requests, lock_owner,
                         current_date, wake_at, oldest_seen, day_calls,
                         admitted_for, admitted_on, last_call, spaced,
                         ever_slept, total_calls>>
       /\ Gating
          => LET fm == FreshMinute(minute_requests, now)
                 fd == FreshDay(day_requests, Date(now))
                 raises == Len(fd) >= rpd_limit
                 sleeps == /\ ~raises
                           /\ Len(fm) >= rpm_limit
                           /\ MinuteWindow - (now - fm[1]) > 0
             IN  /\ (last'.res = "raised") <=> raises
                 /\ (last'.res = "sleep") <=> sleeps
                 /\ last'.res = "sleep"
                       => /\ wake_at'[last'.who]
                               = now + MinuteWindow - (now - fm[1])
                          /\ minute_requests' = fm
                          /\ day_requests' = fd
                 /\ last'.res = "raised"
                       => /\ minute_requests' = fm
                          /\ day_requests' = fd
                 /\ last'.res = "ok"
                       => /\ minute_requests' = Append(fm, now)
                          /\ day_requests' = Append(fd, Date(now))
       /\ last'.op = "wake"
          => LET c == last'.who
             IN  /\ minute_requests'
                       = Append(FreshMinute(minute_requests, now), now)
                 /\ FreshDay(day_requests', Date(now))
                       = FreshDay(Append(FreshDay(day_requests, Date(now)),
                                         current_date[c]), Date(now))
                 /\ day_requests'[Len(day_requests')] = current_date[c]]_vars

\* get_usage_stats has just run after midnight, while an acquire() call that
\* found the minute window full before midnight is still asleep holding the
\* lock: it has purged yesterday's entries from the day window.
C30_Witness ==
    /\ last.op = "stats"
    /\ day_requests = << >>
    /\ Len(minute_requests) >= rpm_limit
    /\ \E c \in Callers :
          /\ pc[c] = "sleeping"
          /\ now < wake_at[c]
          /\ current_date[c] < Date(now)

====
